---- MODULE Spec2Model ----
(***************************************************************************)
(* Hackflight flight-control core.                                         *)
(*                                                                         *)
(*   - Hackflight::initialize / Hackflight::update  (firmware/hackflight.cpp)*)
(*     the arming / disarming / calibration state machine, which drives    *)
(*     the fixed-point controller Stabilize;                               *)
(*   - Stabilize::init / update / resetIntegral     (stabilize.cpp,        *)
(*     src/unnamed/part_002), the fixed-point PID control law;             *)
(*   - Stabilizer::init / updateDemands / resetIntegral (stabilizer.hpp,   *)
(*     src/unnamed/part_001), the floating-point PID control law.          *)
(*                                                                         *)
(* Floating-point quantities of Stabilizer are represented in thousandths  *)
(* (1.0 is 1000); a product of two such quantities is divided by 1000 and  *)
(* rounded toward zero.  Integer arithmetic of Stabilize follows C: "/"    *)
(* truncates toward zero, ">>" is the arithmetic shift.                    *)
(***************************************************************************)
EXTENDS Integers, Sequences, FiniteSets, TLC

VARIABLES
    prog,            \* which program runs: "firmware", "fixed" or "float"
    armed,           \* Hackflight::armed
    calibratingG,    \* Hackflight::calibratingG
    calibratingA,    \* static calibratingA of Hackflight::update
    accCalibrated,   \* static accCalibrated of Hackflight::update
    haveSmallAngle,  \* Hackflight::haveSmallAngle
    rc,              \* the receiver object as Hackflight::update reads it
    tick,            \* what the last pass of Hackflight::update did
    fx,              \* the Stabilize object (fixed point)
    fl,              \* the Stabilizer object (floating point)
    gains,           \* the gains given to Stabilizer's constructor
    demands,         \* demands_t handed to / returned by Stabilizer::updateDemands
    last             \* the last call made on a stabilizer: inputs and locals

vars == <<prog, armed, calibratingG, calibratingA, accCalibrated,
          haveSmallAngle, rc, tick, fx, fl, gains, demands, last>>

----------------------------------------------------------------------------
(* C arithmetic *)

Abs(x) == IF x < 0 THEN -x ELSE x

\* Filter::max / max()
Max(a, b) == IF a > b THEN a ELSE b

\* C integer division: truncation toward zero (d > 0)
Quot(n, d) == IF n >= 0 THEN n \div d ELSE -((-n) \div d)

\* C arithmetic right shift of a signed value
Shr(n, k) == n \div (2 ^ k)

----------------------------------------------------------------------------
(* Axes, shared by both controllers *)

AXIS_ROLL == 0
AXIS_PITCH == 1
AXIS_YAW == 2

Axes == {AXIS_ROLL, AXIS_PITCH, AXIS_YAW}
Cyclic == {AXIS_ROLL, AXIS_PITCH}

Zero3 == [a \in Axes |-> 0]
Zero2 == [a \in Cyclic |-> 0]

----------------------------------------------------------------------------
(* Stabilize: the fixed-point control law (stabilize.cpp)                  *)

\* config.hpp values read by stabilize.cpp and hackflight.cpp
CONFIG_LEVEL_P == 40
CONFIG_LEVEL_I == 2
CONFIG_RATE_PITCHROLL_P == 36
CONFIG_RATE_PITCHROLL_I == 30
CONFIG_RATE_PITCHROLL_D == 23
CONFIG_YAW_P == 85
CONFIG_YAW_I == 45
CONFIG_MAX_ANGLE_INCLINATION == 500
CONFIG_SMALL_ANGLE == 250

\* rcCommand[] indices
DEMAND_ROLL == 0
DEMAND_PITCH == 1
DEMAND_YAW == 2

\* Stabilize::init, the gain tables
rate_p(axis) == IF axis = AXIS_YAW THEN CONFIG_YAW_P ELSE CONFIG_RATE_PITCHROLL_P
rate_i(axis) == IF axis = AXIS_YAW THEN CONFIG_YAW_I ELSE CONFIG_RATE_PITCHROLL_I
rate_d(axis) == IF axis = AXIS_YAW THEN 0 ELSE CONFIG_RATE_PITCHROLL_D

\* #define constrain(val, lo, hi) (val) < (lo) ? lo : ((val) > hi ? hi : val)
\* where the expansion stands alone as an expression
constrain(val, lo, hi) == IF val < lo THEN lo ELSE (IF val > hi THEN hi ELSE val)

\* the integrator limits of Stabilize::update
FixedWindupMax == 16000
FixedAngleWindupMax == 10000
FixedBigGyro == 640
FixedBigYaw == 100
FixedYawJump == 100
FixedFullProp == 500

\* Stabilize::update, "WindUp" line: the accumulator after adding the error
\* (variant without the limit)
FixedWindupLoose(acc, error) == acc + error
FixedWindup(acc, error) == constrain(acc + error, -FixedWindupMax, FixedWindupMax)

\* Stabilize::update, the reset condition of the gyro integrator
FixedReset(axis, rcCommand, gyroADC) ==
    \/ Abs(gyroADC[axis]) > FixedBigGyro
    \/ (axis = AXIS_YAW /\ Abs(rcCommand[axis]) > FixedBigYaw)

\* Stabilize::update: error fed to the gyro integrator
FixedError(axis, rcCommand, gyroADC) ==
    Quot(rcCommand[axis] * 10 * 8, rate_p(axis)) - gyroADC[axis]

\* Stabilize::update: ITermGYRO from the accumulator
FixedITermGyro(axis, errI) == Shr(Quot(errI, 125) * rate_i(axis), 6)

\* Stabilize::update: errorAngle.  The macro's expansion leaves "- angle[axis]"
\* inside the innermost alternative only.
FixedErrorAngle(axis, rcCommand, angle) ==
    IF 2 * rcCommand[axis] < -CONFIG_MAX_ANGLE_INCLINATION
    THEN -CONFIG_MAX_ANGLE_INCLINATION
    ELSE (IF 2 * rcCommand[axis] > CONFIG_MAX_ANGLE_INCLINATION
          THEN CONFIG_MAX_ANGLE_INCLINATION
          ELSE 2 * rcCommand[axis]) - angle[axis]

\* Stabilize::update: prop, range [0;500]
FixedProp(rcCommand) == Max(Abs(rcCommand[DEMAND_PITCH]), Abs(rcCommand[DEMAND_ROLL]))

\* Stabilize::update: blend of the angle term and the rate term
\* (variant with the two weights exchanged)
FixedBlendSwapped(acc, gyro, prop) == Quot(acc * prop + gyro * (FixedFullProp - prop), FixedFullProp)
FixedBlend(acc, gyro, prop) == Quot(acc * (FixedFullProp - prop) + gyro * prop, FixedFullProp)

\* Stabilize::update: the yaw clamp after the axis loop
FixedYawClamp(pid, rcCommand) ==
    constrain(pid, -FixedYawJump - Abs(rcCommand[DEMAND_YAW]),
                   FixedYawJump + Abs(rcCommand[DEMAND_YAW]))

\* One iteration of the axis loop of Stabilize::update: the new per-axis
\* memory and the locals of the iteration.
FixedAxis(s, axis, rcCommand, gyroADC, angle) ==
    LET error      == FixedError(axis, rcCommand, gyroADC)
        PTermGYRO  == rcCommand[axis]
        errI       == IF FixedReset(axis, rcCommand, gyroADC)
                      THEN 0
                      ELSE FixedWindup(s.errorGyroI[axis], error)
        ITermGYRO  == FixedITermGyro(axis, errI)
        errorAngle == FixedErrorAngle(axis, rcCommand, angle)
        PTermACC   == Quot(errorAngle * CONFIG_LEVEL_P, 100)
        errAI      == constrain(s.errorAngleI[axis] + errorAngle,
                                -FixedAngleWindupMax, FixedAngleWindupMax)
        ITermACC   == Shr(errAI * CONFIG_LEVEL_I, 12)
        prop       == FixedProp(rcCommand)
        PTerm0     == IF axis < 2 THEN FixedBlend(PTermACC, PTermGYRO, prop) ELSE PTermGYRO
        ITerm      == IF axis < 2 THEN FixedBlend(ITermACC, ITermGYRO, prop) ELSE ITermGYRO
        PTerm      == PTerm0 - Quot(Quot(gyroADC[axis] * rate_p(axis), 10), 8)
        delta      == gyroADC[axis] - s.lastGyro[axis]
        deltaSum   == s.delta1[axis] + s.delta2[axis] + delta
        DTerm      == Quot(deltaSum * rate_d(axis), 32)
    IN  [errorGyroI  |-> errI,
         errorAngleI |-> IF axis < 2 THEN errAI ELSE 0,
         lastGyro    |-> gyroADC[axis],
         delta1      |-> delta,
         delta2      |-> s.delta1[axis],
         axisPID     |-> PTerm + ITerm - DTerm,
         iterm       |-> ITermGYRO,
         pterm       |-> PTerm0,
         pacc        |-> IF axis < 2 THEN PTermACC ELSE 0,
         dsum        |-> deltaSum]

\* the axis loop of Stabilize::update: the three iterations, in order
FixedAxes(s, rcCommand, gyroADC, angle) ==
    <<FixedAxis(s, AXIS_ROLL, rcCommand, gyroADC, angle),
      FixedAxis(s, AXIS_PITCH, rcCommand, gyroADC, angle),
      FixedAxis(s, AXIS_YAW, rcCommand, gyroADC, angle)>>

\* Stabilize::update: the object after the axis loop q and the yaw clamp
Stabilize_after(q, rcCommand) ==
    [errorGyroI  |-> [a \in Axes |-> q[a + 1].errorGyroI],
     errorAngleI |-> [a \in Cyclic |-> q[a + 1].errorAngleI],
     lastGyro    |-> [a \in Axes |-> q[a + 1].lastGyro],
     delta1      |-> [a \in Axes |-> q[a + 1].delta1],
     delta2      |-> [a \in Axes |-> q[a + 1].delta2],
     axisPID     |-> [a \in Axes |->
                        IF a = AXIS_YAW
                        THEN FixedYawClamp(q[a + 1].axisPID, rcCommand)
                        ELSE q[a + 1].axisPID]]

\* the locals of the axis loop q of Stabilize::update, kept for inspection
Stabilize_localsOf(q, rcCommand) ==
    [iterm |-> [a \in Axes |-> q[a + 1].iterm],
     pterm |-> [a \in Axes |-> q[a + 1].pterm],
     pacc  |-> [a \in Axes |-> q[a + 1].pacc],
     dsum  |-> [a \in Axes |-> q[a + 1].dsum],
     prop  |-> FixedProp(rcCommand)]

\* Stabilize::update
Stabilize_update(s, rcCommand, gyroADC, angle) ==
    Stabilize_after(FixedAxes(s, rcCommand, gyroADC, angle), rcCommand)

Stabilize_locals(s, rcCommand, gyroADC, angle) ==
    Stabilize_localsOf(FixedAxes(s, rcCommand, gyroADC, angle), rcCommand)

\* Stabilize::resetIntegral
\* (variants: one that leaves the yaw accumulator; one that forgets the
\* last rate sample too)
Stabilize_resetKeepYaw(s) ==
    [s EXCEPT !.errorGyroI = [a \in Axes |-> IF a = AXIS_YAW THEN @[a] ELSE 0],
              !.errorAngleI = Zero2]
Stabilize_resetLastGyro(s) ==
    [s EXCEPT !.errorGyroI = Zero3, !.errorAngleI = Zero2, !.lastGyro = Zero3]
Stabilize_resetIntegral(s) ==
    [s EXCEPT !.errorGyroI = Zero3, !.errorAngleI = Zero2]

\* Stabilize::init: history zeroed, integrators reset; axisPID is untouched
Stabilize_init(s) ==
    Stabilize_resetIntegral(
        [s EXCEPT !.lastGyro = Zero3, !.delta1 = Zero3, !.delta2 = Zero3])

\* the object as Stabilize::init leaves a fresh instance
FixedFresh ==
    [errorGyroI |-> Zero3, errorAngleI |-> Zero2, lastGyro |-> Zero3,
     delta1 |-> Zero3, delta2 |-> Zero3, axisPID |-> Zero3]

----------------------------------------------------------------------------
(* Stabilizer: the floating-point control law (stabilizer.hpp).            *)
(* Quantities are in thousandths.                                          *)

\* 1.0
One == 10 ^ 3

\* product of two quantities in thousandths
Mul(a, b) == Quot(a * b, One)

\* filter.hpp
Filter_max(a, b) == IF a > b THEN a ELSE b
Filter_constrainAbs(v, hilo) == IF v < -hilo THEN -hilo ELSE (IF v > hilo THEN hilo ELSE v)
Filter_complementary(a, b, c) == Mul(a, c) + Mul(b, One - c)

\* Stabilizer's thresholds
gyroWindupMax == 16000
bigGyroDegreesPerSecond == 40
bigYawDemand == 100
maxArmingAngleDegrees == 25
yawJumpBase == 100

\* Stabilizer::degreesToRadians, M_PI * deg / 180, in thousandths of a radian
degreesToRadians(deg) == (3141593 * deg) \div 180000

\* Stabilizer::init: bigGyroRate
bigGyroRate == degreesToRadians(bigGyroDegreesPerSecond)

\* Stabilizer::computeITermGyro: the error
FloatError(rateP, rcCommand, gyro, axis) == Mul(rcCommand, rateP) - gyro[axis]

\* Stabilizer::computeITermGyro: "Avoid integral windup"
FloatWindup(acc, error) == Filter_constrainAbs(acc + error, gyroWindupMax)

\* Stabilizer::computeITermGyro: the reset condition
FloatResetYawOnly(axis, rcCommand, gyro) == axis = AXIS_YAW /\ Abs(rcCommand) > bigYawDemand
FloatReset(axis, rcCommand, gyro) ==
    \/ Abs(gyro[axis]) > bigGyroRate
    \/ (axis = AXIS_YAW /\ Abs(rcCommand) > bigYawDemand)

\* Stabilizer::computeITermGyro: the new errorGyroI[axis]
computeITermGyro_acc(s, rateP, rcCommand, gyro, axis) ==
    IF FloatReset(axis, rcCommand, gyro)
    THEN 0
    ELSE FloatWindup(s.errorGyroI[axis], FloatError(rateP, rcCommand, gyro, axis))

\* Stabilizer::computeITermGyro: the value returned
computeITermGyro(s, rateP, rateI, rcCommand, gyro, axis) ==
    Mul(computeITermGyro_acc(s, rateP, rcCommand, gyro, axis), rateI)

\* Stabilizer::computePid
computePid(rateP, PTerm, ITerm, DTerm, gyro, axis) ==
    (PTerm - Mul(gyro[axis], rateP)) + ITerm - DTerm

\* Stabilizer::computeCyclicPid: the blended proportional term
FloatBlend(rcCommand, PTermEuler, prop) == Filter_complementary(rcCommand, PTermEuler, prop)

\* Stabilizer::computeCyclicPid for pitch or roll: the new per-axis memory,
\* the locals and the value returned
computeCyclicPid(s, g, rcCommand, prop, eulerAngles, gyro, imuAxis) ==
    LET ITermGyro    == computeITermGyro(s, g.gyroCyclicP, g.gyroCyclicI, rcCommand, gyro, imuAxis)
        PTermEuler   == Mul(rcCommand - eulerAngles[imuAxis], g.levelP)
        PTerm        == FloatBlend(rcCommand, PTermEuler, prop)
        ITerm        == Mul(ITermGyro, prop)
        gyroDelta    == gyro[imuAxis] - s.lastGyro[imuAxis]
        gyroDeltaSum == s.gyroDelta1[imuAxis] + s.gyroDelta2[imuAxis] + gyroDelta
        DTerm        == Mul(gyroDeltaSum, g.gyroCyclicD)
    IN  [errorGyroI |-> computeITermGyro_acc(s, g.gyroCyclicP, rcCommand, gyro, imuAxis),
         lastGyro   |-> gyro[imuAxis],
         gyroDelta1 |-> gyroDelta,
         gyroDelta2 |-> s.gyroDelta1[imuAxis],
         iterm      |-> ITermGyro,
         pterm      |-> PTerm,
         pacc       |-> PTermEuler,
         dsum       |-> gyroDeltaSum,
         out        |-> computePid(g.gyroCyclicP, PTerm, ITerm, DTerm, gyro, imuAxis)]

\* Stabilizer::updateDemands: prop
FloatProp(d) == Quot(Filter_max(Abs(d[AXIS_ROLL]), Abs(d[AXIS_PITCH])) * One, 500)

\* Stabilizer::updateDemands, the yaw lines: the new yaw accumulator, the
\* locals and the yaw output.  demands.yaw already holds the PID result when
\* the bound of the last line is computed from it.
updateDemands_yaw(s, g, gyroRates, d) ==
    LET ITermGyroYaw == computeITermGyro(s, g.gyroYawP, g.gyroYawI, d[AXIS_YAW], gyroRates, AXIS_YAW)
        yaw          == computePid(g.gyroYawP, d[AXIS_YAW], ITermGyroYaw, 0, gyroRates, AXIS_YAW)
    IN  [errorGyroI |-> computeITermGyro_acc(s, g.gyroYawP, d[AXIS_YAW], gyroRates, AXIS_YAW),
         lastGyro   |-> 0,
         gyroDelta1 |-> 0,
         gyroDelta2 |-> 0,
         iterm      |-> ITermGyroYaw,
         pterm      |-> d[AXIS_YAW],
         pacc       |-> 0,
         dsum       |-> 0,
         out        |-> Filter_constrainAbs(yaw, yawJumpBase + Abs(yaw))]

\* Stabilizer::updateDemands: roll, pitch and yaw, in order
FloatAxes(s, g, eulerAngles, gyroRates, d) ==
    <<computeCyclicPid(s, g, d[AXIS_ROLL], FloatProp(d), eulerAngles, gyroRates, AXIS_ROLL),
      computeCyclicPid(s, g, d[AXIS_PITCH], FloatProp(d), eulerAngles, gyroRates, AXIS_PITCH),
      updateDemands_yaw(s, g, gyroRates, d)>>

\* Stabilizer::updateDemands: the object afterwards
updateDemands_after(q) ==
    [errorGyroI |-> [a \in Axes |-> q[a + 1].errorGyroI],
     lastGyro   |-> [a \in Cyclic |-> q[a + 1].lastGyro],
     gyroDelta1 |-> [a \in Cyclic |-> q[a + 1].gyroDelta1],
     gyroDelta2 |-> [a \in Cyclic |-> q[a + 1].gyroDelta2]]

\* Stabilizer::updateDemands: the demands written back
updateDemands_out(q) == [a \in Axes |-> q[a + 1].out]

\* the locals of Stabilizer::updateDemands, kept for inspection
updateDemands_localsOf(q, d) ==
    [iterm |-> [a \in Axes |-> q[a + 1].iterm],
     pterm |-> [a \in Axes |-> q[a + 1].pterm],
     pacc  |-> [a \in Axes |-> q[a + 1].pacc],
     dsum  |-> [a \in Axes |-> q[a + 1].dsum],
     prop  |-> FloatProp(d)]

\* Stabilizer::updateDemands
updateDemands(s, g, eulerAngles, gyroRates, d) ==
    updateDemands_after(FloatAxes(s, g, eulerAngles, gyroRates, d))

\* Stabilizer::resetIntegral
\* (variant that leaves the yaw accumulator)
Stabilizer_resetKeepYaw(s) ==
    [s EXCEPT !.errorGyroI = [a \in Axes |-> IF a = AXIS_YAW THEN @[a] ELSE 0]]
Stabilizer_resetIntegral(s) == [s EXCEPT !.errorGyroI = Zero3]

\* Stabilizer::init
\* (variant that leaves the D-term history)
Stabilizer_initKeepHistory(s) == Stabilizer_resetIntegral(s)
Stabilizer_init(s) ==
    Stabilizer_resetIntegral(
        [s EXCEPT !.lastGyro = Zero2, !.gyroDelta1 = Zero2, !.gyroDelta2 = Zero2])

\* the object as Stabilizer::init leaves a fresh instance
FloatFresh ==
    [errorGyroI |-> Zero3, lastGyro |-> Zero2, gyroDelta1 |-> Zero2, gyroDelta2 |-> Zero2]

----------------------------------------------------------------------------
(* Receiver, as Hackflight::update reads it                                *)

\* stick positions, two bits per channel
ROL_LO == 1
ROL_HI == 2
ROL_CE == 3
PIT_LO == 1 * 4
PIT_HI == 2 * 4
PIT_CE == 3 * 4
YAW_LO == 1 * 16
YAW_HI == 2 * 16
YAW_CE == 3 * 16
THR_LO == 1 * 64
THR_HI == 2 * 64
THR_CE == 3 * 64

\* the four gestures Hackflight::update recognises
GestureDisarm  == THR_LO + YAW_LO + PIT_CE + ROL_CE
GestureGyroCal == THR_LO + YAW_LO + PIT_LO + ROL_CE
GestureArm     == THR_LO + YAW_HI + PIT_CE + ROL_CE
GestureAccCal  == THR_HI + YAW_LO + PIT_LO + ROL_CE

\* RC::init: no stick position read yet
RcFresh == [sticks |-> 0, changed |-> FALSE, aux |-> 0]

\* RC::update: the new stick code, whether it differs from the previous
\* tick's (RC::changed) and the aux switch (RC::auxState)
Rc_update(r, newSticks, newAux) ==
    [sticks |-> newSticks, changed |-> newSticks /= r.sticks, aux |-> newAux]

\* RC::throttleIsDown: the throttle channel is at its minimum
throttleIsDown(r) == (r.sticks \div 64) % 4 = 1

----------------------------------------------------------------------------
(* Hackflight (firmware/hackflight.cpp)                                    *)

\* Hackflight::initialize: cycles computed from the board's time constants
calibratingGyroCycles == 2
calibratingAccCycles == 2

\* Hackflight::update, "Arm via throttle-low / yaw-right": the nested guards
\* (variants: without the aux test; without the calibratingG test; with the
\* aux test inverted)
ArmGuardNoAux(calG, accCal, aux, isArmed) == calG = 0 /\ accCal /\ ~isArmed
ArmGuardNoGyro(calG, accCal, aux, isArmed) == accCal /\ aux = 0 /\ ~isArmed
ArmGuardAuxInverted(calG, accCal, aux, isArmed) == calG = 0 /\ accCal /\ aux /= 0 /\ ~isArmed
ArmGuard(calG, accCal, aux, isArmed) ==
    calG = 0 /\ accCal /\ aux = 0 /\ ~isArmed

\* Hackflight::update, "actions during armed": armed afterwards
\* (variants: the gyro calibration gesture disarms too; nothing disarms;
\* throttle low disarms whatever the other sticks)
ArmedActionsLoose(sticks) == ~(sticks \in {GestureDisarm, GestureGyroCal})
ArmedActionsNever(sticks) == TRUE
ArmedActionsThrLow(sticks) == ~((sticks \div THR_LO) % 4 = 1)
ArmedActions(sticks) == ~(sticks = GestureDisarm)

\* Hackflight::update, "if (this->rc.changed())"
\* (variant that takes every receiver tick as a change)
GestureChangedAlways(r) == TRUE
GestureChanged(r) == r.changed

\* Hackflight::update, "when landed, reset integral component of PID": the
\* condition under which stab.resetIntegral() is called
\* (variant that looks at the throttle only when the gesture changed)
LandedResetOnChange(r) == GestureChanged(r) /\ throttleIsDown(r)
LandedReset(r) == throttleIsDown(r)

\* Hackflight::update, "actions during not armed": a calibration gesture is
\* acted on
\* (variant that acts on it in the armed state as well)
CalibrationGestureAnyState(isArmed, r, gesture) ==
    GestureChanged(r) /\ r.sticks = gesture
CalibrationGesture(isArmed, r, gesture) ==
    GestureChanged(r) /\ ~isArmed /\ r.sticks = gesture

\* Hackflight::update, the receiver branch (lines 100-150) on the values
\* RC::update delivered: the flight state afterwards, what
\* Board::showArmedStatus was called with, and the calls made on the
\* stabilizer and the board, in order: showAuxStatus when armed (108-109),
\* resetIntegral when landed (112-113), showArmedStatus on arming or
\* disarming (123, 138), extrasCheckSwitch (150)
RcBranch(isArmed, calG, calA, accCal, s, r) ==
    LET s1    == IF LandedReset(r) THEN Stabilize_resetIntegral(s) ELSE s
        calG1 == IF CalibrationGesture(isArmed, r, GestureGyroCal)
                 THEN calibratingGyroCycles ELSE calG
        arm   == GestureChanged(r) /\ ~isArmed /\ r.sticks = GestureArm
                 /\ ArmGuard(calG1, accCal, r.aux, isArmed)
        calA1 == IF CalibrationGesture(isArmed, r, GestureAccCal)
                 THEN calibratingAccCycles ELSE calA
        armed1 == IF GestureChanged(r) /\ isArmed THEN ArmedActions(r.sticks)
                  ELSE IF arm THEN TRUE ELSE isArmed
    IN  [armed |-> armed1, calibratingG |-> calG1, calibratingA |-> calA1,
         fx |-> s1,
         shown |-> IF armed1 /= isArmed
                   THEN (IF armed1 THEN "armed" ELSE "disarmed") ELSE "none",
         calls |-> (IF isArmed THEN <<"showAuxStatus">> ELSE <<>>)
                   \o (IF LandedReset(r) THEN <<"resetIntegral">> ELSE <<>>)
                   \o (IF armed1 /= isArmed THEN <<"showArmedStatus">> ELSE <<>>)
                   \o <<"extrasCheckSwitch">>]

\* Hackflight::update, the countdown of a calibration counter on an IMU tick
\* (variant without the test for zero)
CountdownUnchecked(c) == c - 1
Countdown(c) == IF c > 0 THEN c - 1 ELSE c

\* Hackflight::update: haveSmallAngle from imu.angle
SmallAngle(angle) ==
    Abs(angle[0]) < CONFIG_SMALL_ANGLE /\ Abs(angle[1]) < CONFIG_SMALL_ANGLE

\* Hackflight::update, "periodically update accelerometer calibration status"
\* (variant with the test of haveSmallAngle inverted)
AccStatusInverted(accCal, accDue, small) == IF accDue THEN ~small ELSE accCal
AccStatus(accCal, accDue, small) == IF accDue THEN small ELSE accCal

----------------------------------------------------------------------------
(* The record of the last call made on a stabilizer                        *)

NoCall ==
    [op |-> "none", rcCommand |-> Zero3, gyro |-> Zero3, angle |-> Zero3,
     iterm |-> Zero3, pterm |-> Zero3, pacc |-> Zero3, dsum |-> Zero3,
     prop |-> 0, before |-> Zero3, afterReset |-> FALSE,
     rates |-> <<Zero2, Zero2, Zero2>>]

CallOf(name) == [NoCall EXCEPT !.op = name]

\* resetIntegral: the rates of the updates since init stay on record
ResetCall(prev) == [CallOf("reset") EXCEPT !.rates = prev.rates]

\* an update: its inputs, its locals, the gyro accumulators it found,
\* whether resetIntegral or init was the call right before it, and the roll
\* and pitch rates of the last three updates since init, this one first
UpdateCall(rcCommand, gyro, angle, locals, before, fresh, rates) ==
    [op |-> "update", rcCommand |-> rcCommand, gyro |-> gyro, angle |-> angle,
     iterm |-> locals.iterm, pterm |-> locals.pterm, pacc |-> locals.pacc,
     dsum |-> locals.dsum, prop |-> locals.prop, before |-> before,
     afterReset |-> fresh,
     rates |-> <<[a \in Cyclic |-> gyro[a]], rates[1], rates[2]>>]

NoTick == [rc |-> FALSE, imu |-> FALSE, shown |-> "none", calls |-> <<>>]

----------------------------------------------------------------------------
(* Inputs of the firmware                                                  *)

GestureCentered == THR_LO + YAW_CE + PIT_CE + ROL_CE
GestureFlying   == THR_HI + YAW_CE + PIT_CE + ROL_CE

Vec(r, p, y) == [a \in Axes |-> IF a = AXIS_ROLL THEN r ELSE IF a = AXIS_PITCH THEN p ELSE y]

\* the receiver and the sensors while the pilot works the stick gestures
\* with the craft at rest, level or tilted
FwSticks == {GestureDisarm, GestureGyroCal, GestureArm, GestureAccCal,
             GestureCentered, GestureFlying}
FwAux == {0, 1}
FwRcCommand == {Vec(0, 0, 0)}
FwGyro == {Vec(0, 0, 0)}
FwAngle == {Vec(0, 0, 0), Vec(1800, 0, 0)}

\* the receiver and the sensors while the craft is disturbed with the
\* throttle at idle or raised, sticks otherwise centred
GrSticks == {GestureCentered, GestureFlying}
GrAux == {0}
GrRcCommand == {Vec(0, 0, 0)}
GrGyro == {Vec(0, 0, 0), Vec(-640, 640, -640), Vec(700, 700, 700)}
GrAngle == {Vec(0, 0, 0)}

----------------------------------------------------------------------------
(* Hackflight::update: one pass of loop()                                  *)

Pass(rcDue, newSticks, newAux, imuDue, accDue, rcCommand, gyroADC, angle) ==
    \E r1 \in {IF rcDue THEN Rc_update(rc, newSticks, newAux) ELSE rc} :
    \E b \in {IF rcDue
              THEN RcBranch(armed, calibratingG, calibratingA, accCalibrated, fx, r1)
              ELSE [armed |-> armed, calibratingG |-> calibratingG,
                    calibratingA |-> calibratingA, fx |-> fx, shown |-> "none",
                    calls |-> <<"extrasPerformTask">>]} :
    LET didReset == rcDue /\ LandedReset(r1)
        small == SmallAngle(angle)
    IN  /\ prog = "firmware"
        /\ rc' = r1
        /\ armed' = b.armed
        /\ calibratingA' = IF imuDue THEN Countdown(b.calibratingA) ELSE b.calibratingA
        /\ calibratingG' = IF imuDue THEN Countdown(b.calibratingG) ELSE b.calibratingG
        /\ haveSmallAngle' = IF imuDue THEN small ELSE haveSmallAngle
        /\ accCalibrated' = IF imuDue THEN AccStatus(accCalibrated, accDue, small)
                            ELSE accCalibrated
        /\ IF imuDue
           THEN \E q \in {FixedAxes(b.fx, rcCommand, gyroADC, angle)} :
                  /\ fx' = Stabilize_after(q, rcCommand)
                  /\ last' = UpdateCall(rcCommand, gyroADC, angle,
                                        Stabilize_localsOf(q, rcCommand),
                                        b.fx.errorGyroI,
                                        didReset \/ last.op \in {"reset", "init"},
                                        last.rates)
           ELSE /\ fx' = b.fx
                /\ last' = IF didReset THEN ResetCall(last) ELSE last
        /\ tick' = [rc |-> rcDue, imu |-> imuDue, shown |-> b.shown, calls |-> b.calls]
        /\ UNCHANGED <<prog, fl, gains, demands>>

\* neither the receiver task nor the IMU task is due
UpdateIdle ==
    Pass(FALSE, 0, 0, FALSE, FALSE, Zero3, Zero3, Zero3)

\* the receiver task is due, the IMU task is not
UpdateRc(Sticks, Aux) ==
    \E st \in Sticks, ax \in Aux :
        Pass(TRUE, st, ax, FALSE, FALSE, Zero3, Zero3, Zero3)

\* the IMU task is due, the receiver task is not
UpdateImu(Cmd, Gyro, Angle) ==
    \E ad \in BOOLEAN, c \in Cmd, g \in Gyro, an \in Angle :
        Pass(FALSE, 0, 0, TRUE, ad, c, g, an)

\* both tasks are due in the same pass
UpdateRcImu(Sticks, Aux, Cmd, Gyro, Angle) ==
    \E st \in Sticks, ax \in Aux, ad \in BOOLEAN, c \in Cmd, g \in Gyro, an \in Angle :
        Pass(TRUE, st, ax, TRUE, ad, c, g, an)

\* Hackflight::initialize
Init ==
    /\ prog = "firmware"
    /\ armed = FALSE
    /\ calibratingG = calibratingGyroCycles
    /\ calibratingA = 0
    /\ accCalibrated = FALSE
    /\ haveSmallAngle = TRUE
    /\ rc = RcFresh
    /\ tick = NoTick
    /\ fx = Stabilize_init(FixedFresh)
    /\ fl = FloatFresh
    /\ gains = [levelP |-> 0, gyroCyclicP |-> 0, gyroCyclicI |-> 0,
                gyroCyclicD |-> 0, gyroYawP |-> 0, gyroYawI |-> 0]
    /\ demands = Zero3
    /\ last = CallOf("init")

\* loop() while the pilot works the stick gestures
Next ==
    \/ UpdateIdle
    \/ UpdateRc(FwSticks, FwAux)
    \/ UpdateImu(FwRcCommand, FwGyro, FwAngle)
    \/ UpdateRcImu(FwSticks, FwAux, FwRcCommand, FwGyro, FwAngle)

Spec == Init /\ [][Next]_vars

\* the receiver and the sensors while the craft rests level and the pilot
\* works the calibration and arming gestures
LvSticks == {GestureDisarm, GestureGyroCal, GestureArm, GestureAccCal,
             GestureCentered}
LvAux == {0}
LvRcCommand == {Vec(0, 0, 0)}
LvGyro == {Vec(0, 0, 0)}
LvAngle == {Vec(0, 0, 0)}

\* loop() on the resting craft, where the IMU task keeps coming due
\* (imuTask is a periodic timer)
NextLive ==
    \/ UpdateIdle
    \/ UpdateRc(LvSticks, LvAux)
    \/ UpdateImu(LvRcCommand, LvGyro, LvAngle)
    \/ UpdateRcImu(LvSticks, LvAux, LvRcCommand, LvGyro, LvAngle)

SpecLive ==
    /\ Init
    /\ [][NextLive]_vars
    /\ WF_vars(UpdateImu(LvRcCommand, LvGyro, LvAngle))

\* loop() while the craft is disturbed at idle or raised throttle
NextGround ==
    \/ UpdateIdle
    \/ UpdateRc(GrSticks, GrAux)
    \/ UpdateImu(GrRcCommand, GrGyro, GrAngle)
    \/ UpdateRcImu(GrSticks, GrAux, GrRcCommand, GrGyro, GrAngle)

SpecGround == Init /\ [][NextGround]_vars

----------------------------------------------------------------------------
(* The controllers on their own: init, update and resetIntegral called in  *)
(* any order on one instance                                               *)

In(c, g, an) == [rcCommand |-> c, gyro |-> g, angle |-> an]

\* rcCommand, gyroADC and angle given to Stabilize::update, all within the
\* ranges of the receiver and the sensors: at rest; tilted with centred
\* cyclic sticks and a yaw command; full stick with fast rotation; full
\* stick against a steady rotation, which winds the roll and pitch
\* integrators up; half stick with fast rotation and a yaw drift, which
\* winds the yaw integrator up
FixedInputs ==
    {In(Vec(0, 0, 0),        Vec(0, 0, 0),        Vec(0, 0, 0)),
     In(Vec(0, 0, 200),      Vec(0, 0, 0),        Vec(-500, 500, 0)),
     In(Vec(500, -500, 200), Vec(700, -700, 0),   Vec(500, -500, 0)),
     In(Vec(500, -500, 200), Vec(-640, 640, 0),   Vec(0, 0, 0)),
     In(Vec(250, -100, -100), Vec(700, -700, 640), Vec(500, -200, 0))}

\* demands, gyroRates and eulerAngles given to Stabilizer::updateDemands,
\* in thousandths: at rest; tilted; full stick with fast rotation; a demand
\* large enough to pass the windup bound in one call, with a yaw drift;
\* half stick with fast rotation; a demand of twice the half-scale value
\* 0.5 that prop is normalised by, with fast rotation
FloatInputs ==
    {In(Vec(0, 0, 0),          Vec(0, 0, 0),      Vec(0, 0, 0)),
     In(Vec(0, 0, 0),          Vec(0, 0, 0),      Vec(300, -200, 0)),
     In(Vec(500, -500, 200),   Vec(700, -700, 0), Vec(0, 0, 0)),
     In(Vec(9000, -9000, -100), Vec(0, 0, 600),   Vec(0, 0, 0)),
     In(Vec(250, -100, 0),     Vec(700, -700, 0), Vec(100, 50, 0)),
     In(Vec(1000, -1000, 200), Vec(700, -700, 0), Vec(0, 0, 0))}

\* the gains given to Stabilizer's constructor
Gains(lp, cp, ci, cd, yp, yi) ==
    [levelP |-> lp, gyroCyclicP |-> cp, gyroCyclicI |-> ci,
     gyroCyclicD |-> cd, gyroYawP |-> yp, gyroYawI |-> yi]

GainChoices == {Gains(200, 225, 2, 375, 1062, 6),
                Gains(1000, 2000, 500, 1000, 2000, 500)}

NoGains == Gains(0, 0, 0, 0, 0, 0)

FirmwareIdle ==
    /\ armed = FALSE
    /\ calibratingG = calibratingGyroCycles
    /\ calibratingA = 0
    /\ accCalibrated = FALSE
    /\ haveSmallAngle = TRUE
    /\ rc = RcFresh
    /\ tick = NoTick

\* Stabilize::init called on the instance
FixedInit ==
    /\ prog = "fixed"
    /\ fx' = Stabilize_init(fx)
    /\ last' = CallOf("init")
    /\ UNCHANGED <<prog, armed, calibratingG, calibratingA, accCalibrated,
                   haveSmallAngle, rc, tick, fl, gains, demands>>

\* Stabilize::resetIntegral called on the instance
FixedResetIntegral ==
    /\ prog = "fixed"
    /\ fx' = Stabilize_resetIntegral(fx)
    /\ last' = ResetCall(last)
    /\ UNCHANGED <<prog, armed, calibratingG, calibratingA, accCalibrated,
                   haveSmallAngle, rc, tick, fl, gains, demands>>

\* Stabilize::update called on the instance
FixedUpdate ==
    /\ prog = "fixed"
    /\ \E i \in FixedInputs :
       \E q \in {FixedAxes(fx, i.rcCommand, i.gyro, i.angle)} :
          /\ fx' = Stabilize_after(q, i.rcCommand)
          /\ last' = UpdateCall(i.rcCommand, i.gyro, i.angle,
                                Stabilize_localsOf(q, i.rcCommand),
                                fx.errorGyroI,
                                last.op \in {"reset", "init"},
                                last.rates)
    /\ UNCHANGED <<prog, armed, calibratingG, calibratingA, accCalibrated,
                   haveSmallAngle, rc, tick, fl, gains, demands>>

\* Stabilizer::init called on the instance
FloatInit ==
    /\ prog = "float"
    /\ fl' = Stabilizer_init(fl)
    /\ last' = CallOf("init")
    /\ UNCHANGED <<prog, armed, calibratingG, calibratingA, accCalibrated,
                   haveSmallAngle, rc, tick, fx, gains, demands>>

\* Stabilizer::resetIntegral called on the instance
FloatResetIntegral ==
    /\ prog = "float"
    /\ fl' = Stabilizer_resetIntegral(fl)
    /\ last' = ResetCall(last)
    /\ UNCHANGED <<prog, armed, calibratingG, calibratingA, accCalibrated,
                   haveSmallAngle, rc, tick, fx, gains, demands>>

\* Stabilizer::updateDemands called on the instance
FloatUpdate ==
    /\ prog = "float"
    /\ \E i \in FloatInputs :
       \E q \in {FloatAxes(fl, gains, i.angle, i.gyro, i.rcCommand)} :
          /\ fl' = updateDemands_after(q)
          /\ demands' = updateDemands_out(q)
          /\ last' = UpdateCall(i.rcCommand, i.gyro, i.angle,
                                updateDemands_localsOf(q, i.rcCommand),
                                fl.errorGyroI,
                                last.op \in {"reset", "init"},
                                last.rates)
    /\ UNCHANGED <<prog, armed, calibratingG, calibratingA, accCalibrated,
                   haveSmallAngle, rc, tick, fx, gains>>

\* one controller, constructed and initialised
InitStab ==
    /\ FirmwareIdle
    /\ \/ prog = "fixed" /\ gains = NoGains
       \/ prog = "float" /\ gains \in GainChoices
    /\ fx = Stabilize_init(FixedFresh)
    /\ fl = Stabilizer_init(FloatFresh)
    /\ demands = Zero3
    /\ last = CallOf("init")

NextStab ==
    \/ FixedInit
    \/ FixedResetIntegral
    \/ FixedUpdate
    \/ FloatInit
    \/ FloatResetIntegral
    \/ FloatUpdate

SpecStab == InitStab /\ [][NextStab]_vars

----------------------------------------------------------------------------
(* Arming and disarming (specification Spec)                               *)

\* C1: armed goes from false to true only in a pass whose receiver tick
\* reads the arm gesture while, at that moment, calibratingG is 0,
\* accCalibrated is true and the aux switch is neutral; otherwise armed
\* stays false.
C1_ArmOnlyWhenGuarded ==
    [][(~armed /\ armed') =>
          /\ tick'.rc
          /\ rc'.sticks = GestureArm
          /\ calibratingG = 0
          /\ accCalibrated
          /\ rc'.aux = 0]_vars

\* the craft has just been armed by the arm gesture with the switch neutral
C1_Witness ==
    /\ armed
    /\ tick.rc
    /\ tick.shown = "armed"
    /\ rc.sticks = GestureArm
    /\ rc.aux = 0

\* C2: armed goes from true to false only in a pass whose receiver tick
\* reads the disarm gesture; IMU ticks, countdowns, the loss of accCalibrated
\* and the calibration gestures leave it set.
C2_DisarmOnlyByGesture ==
    [][(armed /\ ~armed') => (tick'.rc /\ rc'.sticks = GestureDisarm)]_vars

\* still armed after an IMU-only pass that has cleared accCalibrated
C2_Witness ==
    /\ armed
    /\ tick.imu
    /\ ~tick.rc
    /\ ~accCalibrated
    /\ ~haveSmallAngle

\* C3: a receiver tick that reads the disarm gesture while armed leaves
\* armed false at the end of the pass, whatever the calibration state.
C3_DisarmGestureDisarms ==
    [][(armed /\ tick'.rc /\ rc'.sticks = GestureDisarm) => ~armed']_vars

\* just disarmed by the gesture while an accel calibration countdown runs
C3_Witness ==
    /\ ~armed
    /\ tick.rc
    /\ tick.shown = "disarmed"
    /\ rc.sticks = GestureDisarm
    /\ calibratingA > 0

\* C4: disarmed, with calibratingG 0, accCalibrated true and the aux switch
\* neutral, a receiver tick on which the arm gesture is newly presented sets
\* armed in that same pass.
C4_ArmGestureArms ==
    [][(/\ ~armed
        /\ calibratingG = 0
        /\ accCalibrated
        /\ tick'.rc
        /\ rc'.changed
        /\ rc'.sticks = GestureArm
        /\ rc'.aux = 0) => armed']_vars

\* just armed, in a pass that also ran the IMU tick with the accelerometer
\* calibrated
C4_Witness ==
    /\ armed
    /\ tick.rc
    /\ tick.imu
    /\ tick.shown = "armed"
    /\ rc.changed
    /\ accCalibrated
    /\ calibratingG = 0

----------------------------------------------------------------------------
(* The gyro integrators (specifications SpecStab and SpecGround)           *)

\* the gyro accumulator of the controller under study
ErrorGyroI(a) == IF prog = "float" THEN fl.errorGyroI[a] ELSE fx.errorGyroI[a]

\* the windup bound of the controller under study
WindupMax == IF prog = "float" THEN gyroWindupMax ELSE FixedWindupMax

\* the last update saw a rate on axis a above the reset threshold, or, on
\* yaw, a yaw demand above its threshold
ResetRuleFired(a) ==
    IF prog = "float"
    THEN \/ Abs(last.gyro[a]) > bigGyroRate
         \/ (a = AXIS_YAW /\ Abs(last.rcCommand[a]) > bigYawDemand)
    ELSE \/ Abs(last.gyro[a]) > FixedBigGyro
         \/ (a = AXIS_YAW /\ Abs(last.rcCommand[a]) > FixedBigYaw)

\* the error of the last update alone on axis a
SingleError(a) ==
    IF prog = "float"
    THEN FloatError(IF a = AXIS_YAW THEN gains.gyroYawP ELSE gains.gyroCyclicP,
                    last.rcCommand[a], last.gyro, a)
    ELSE FixedError(a, last.rcCommand, last.gyro)

\* the integral gain applied to an accumulator value x on axis a
GainTimes(a, x) ==
    IF prog = "float"
    THEN Mul(x, IF a = AXIS_YAW THEN gains.gyroYawI ELSE gains.gyroCyclicI)
    ELSE FixedITermGyro(a, x)

\* x limited to the windup bound
Limited(x) == IF x < -WindupMax THEN -WindupMax ELSE IF x > WindupMax THEN WindupMax ELSE x

\* C5: after every update, and after init and resetIntegral, each axis'
\* gyro accumulator is within the windup bound, in both controllers.
C5_WindupBounded ==
    \A a \in Axes :
        /\ Abs(fx.errorGyroI[a]) <= FixedWindupMax
        /\ Abs(fl.errorGyroI[a]) <= gyroWindupMax

\* an update whose sum went past the bound left the roll accumulator at it
C5_Witness ==
    /\ prog = "fixed"
    /\ last.op = "update"
    /\ last.before[AXIS_ROLL] + SingleError(AXIS_ROLL) > FixedWindupMax
    /\ ~ResetRuleFired(AXIS_ROLL)
    /\ fx.errorGyroI[AXIS_ROLL] = FixedWindupMax

\* C6: after an update in which an axis' gyro rate was above the reset
\* threshold, that axis' accumulator is zero; after an update in which the
\* yaw demand was above its threshold, the yaw accumulator is zero.
C6_ResetOnBigRateOrYaw ==
    last.op = "update" =>
        \A a \in Axes : ResetRuleFired(a) => ErrorGyroI(a) = 0

\* a large yaw demand has zeroed a yaw accumulator that held something
C6_Witness ==
    /\ prog = "float"
    /\ last.op = "update"
    /\ Abs(last.rcCommand[AXIS_YAW]) > bigYawDemand
    /\ last.before[AXIS_YAW] /= 0
    /\ fl.errorGyroI[AXIS_YAW] = 0

\* C7 as stated: at the end of every pass whose receiver tick reports
\* throttle down, all gyro and angle accumulators are zero, whether or not
\* the PID update ran in that pass.
C7_ZeroAtEndOfPass ==
    (tick.rc /\ throttleIsDown(rc)) =>
        /\ fx.errorGyroI = Zero3
        /\ fx.errorAngleI = Zero2

\* C7: at the end of a pass whose receiver tick reports throttle down,
\* nothing from before the pass is left in the accumulators: they are zero
\* if the PID update did not run in the pass, and otherwise hold what that
\* one update leaves starting from zero.
C7_NothingCarriedPastReset ==
    (tick.rc /\ throttleIsDown(rc)) =>
        IF tick.imu
        THEN /\ \A a \in Axes :
                    fx.errorGyroI[a] =
                        IF ResetRuleFired(a) THEN 0 ELSE Limited(SingleError(a))
             /\ \A a \in Cyclic :
                    fx.errorAngleI[a] =
                        constrain(FixedErrorAngle(a, last.rcCommand, last.angle),
                                  -FixedAngleWindupMax, FixedAngleWindupMax)
        ELSE /\ fx.errorGyroI = Zero3
             /\ fx.errorAngleI = Zero2

\* throttle down on a receiver tick, the PID update ran in the same pass,
\* and the roll accumulator ends the pass holding that update's error
C7_Witness ==
    /\ tick.rc
    /\ tick.imu
    /\ throttleIsDown(rc)
    /\ last.op = "update"
    /\ fx.errorGyroI[AXIS_ROLL] /= 0
    /\ fx.errorGyroI[AXIS_ROLL] = SingleError(AXIS_ROLL)

\* C8 as stated: in the first update after a reset the gyro integral term
\* of each axis is the integral gain times that update's error.
C8_GainTimesError ==
    (last.op = "update" /\ last.afterReset) =>
        \A a \in Axes : last.iterm[a] = GainTimes(a, SingleError(a))

\* C8: in the first update after a reset the gyro integral term of each
\* axis is the integral gain times that update's error limited to the
\* windup bound, or zero where the reset rule fired; nothing is carried
\* over from before the reset.
C8_FirstUpdateAfterReset ==
    (last.op = "update" /\ last.afterReset) =>
        \A a \in Axes :
            last.iterm[a] =
                GainTimes(a, IF ResetRuleFired(a) THEN 0 ELSE Limited(SingleError(a)))

\* a first update after a reset with a gyro integral term on roll
C8_Witness ==
    /\ prog = "fixed"
    /\ last.op = "update"
    /\ last.afterReset
    /\ ~ResetRuleFired(AXIS_ROLL)
    /\ last.iterm[AXIS_ROLL] /= 0
    /\ fx.errorGyroI[AXIS_ROLL] = Limited(SingleError(AXIS_ROLL))

----------------------------------------------------------------------------
(* The outputs (specification SpecStab)                                    *)

\* the yaw output of the last update
YawOut == IF prog = "float" THEN demands[AXIS_YAW] ELSE fx.axisPID[AXIS_YAW]

\* C9: after every update the yaw output is within the yaw-jump base plus
\* the magnitude of the yaw demand given to that update.
C9_YawJumpBounded ==
    last.op = "update" =>
        Abs(YawOut) <= (IF prog = "float" THEN yawJumpBase ELSE FixedYawJump)
                       + Abs(last.rcCommand[AXIS_YAW])

\* C10: for roll and pitch, with prop 0 the proportional term before the
\* gyro-rate subtraction is the angle term alone; with prop at full scale
\* it is the raw demand alone.
C10_BlendEndpoints ==
    last.op = "update" =>
        \A a \in Cyclic :
            /\ last.prop = 0 =>
                 last.pterm[a] =
                     IF prog = "float"
                     THEN Mul(last.rcCommand[a] - last.angle[a], gains.levelP)
                     ELSE Quot((2 * last.rcCommand[a] - last.angle[a]) * CONFIG_LEVEL_P, 100)
            /\ last.prop = (IF prog = "float" THEN One ELSE FixedFullProp) =>
                 last.pterm[a] = last.rcCommand[a]

\* centred sticks on a tilted craft: the proportional term is the angle term
C10_Witness ==
    /\ prog = "fixed"
    /\ last.op = "update"
    /\ last.prop = 0
    /\ last.angle[AXIS_ROLL] /= 0
    /\ last.pterm[AXIS_ROLL] = Quot((0 - last.angle[AXIS_ROLL]) * CONFIG_LEVEL_P, 100)

----------------------------------------------------------------------------
(* Calibration state (specification Spec)                                  *)

\* C11 as stated: once accCalibrated is true it stays true in every pass
\* that does not read the accel-calibration gesture; no IMU tick or
\* periodic check sets it back to false.
C11_StaysCalibrated ==
    [][(accCalibrated /\ ~(tick'.rc /\ rc'.sticks = GestureAccCal))
          => accCalibrated']_vars

\* C11: once accCalibrated is true it stays true in every pass except one
\* whose IMU tick finds the craft outside the small angle (the periodic
\* check then sets it to false, whether or not a calibration countdown is
\* running); receiver ticks, the accel-calibration gesture included, and
\* IMU ticks at a small angle leave it true.
C11_ClearedOnlyWhenTilted ==
    [][(accCalibrated /\ ~accCalibrated') => (tick'.imu /\ ~haveSmallAngle')]_vars

\* the status has been lost (the craft was armed, so it had been true) on
\* an IMU tick at a large angle with no calibration countdown running
C11_Witness ==
    /\ armed
    /\ ~accCalibrated
    /\ tick.imu
    /\ tick.rc
    /\ ~haveSmallAngle
    /\ calibratingA = 0

----------------------------------------------------------------------------
(* Initialisation and reset of the controllers (specification SpecStab)    *)

\* the last update was given all-zero demands, rates and angles
ZeroInputs ==
    /\ last.op = "update"
    /\ last.rcCommand = Zero3
    /\ last.gyro = Zero3
    /\ last.angle = Zero3

\* the outputs of the controller under study are all zero
ZeroOutputs == IF prog = "float" THEN demands = Zero3 ELSE fx.axisPID = Zero3

\* the memory of the controller under study is all zero
ZeroMemory ==
    IF prog = "float"
    THEN /\ fl.errorGyroI = Zero3
         /\ fl.lastGyro = Zero2
         /\ fl.gyroDelta1 = Zero2
         /\ fl.gyroDelta2 = Zero2
    ELSE /\ fx.errorGyroI = Zero3
         /\ fx.errorAngleI = Zero2
         /\ fx.lastGyro = Zero3
         /\ fx.delta1 = Zero3
         /\ fx.delta2 = Zero3

\* C12: an update with all-zero inputs made right after init yields
\* all-zero outputs and leaves the whole controller memory at zero.
C12_ZeroAfterInit ==
    [][(last.op = "init" /\ ZeroInputs') => (ZeroOutputs' /\ ZeroMemory')]_vars

\* an all-zero update, first call after an init or reset, with zero
\* outputs and zero memory in the floating-point controller
C12_Witness ==
    /\ prog = "float"
    /\ ZeroInputs
    /\ last.afterReset
    /\ ZeroOutputs
    /\ ZeroMemory

----------------------------------------------------------------------------
(* Gesture processing (specification Spec)                                 *)

\* the four stick combinations Hackflight::update acts on
Recognised == {GestureGyroCal, GestureArm, GestureAccCal, GestureDisarm}

\* C13: a receiver tick whose gesture is none of the four recognised ones
\* leaves armed, calibratingG, calibratingA and accCalibrated as they were,
\* apart from what the IMU tick of the same pass does (the countdowns and
\* the periodic accelerometer check).
C13_UnrecognisedGestureNoEffect ==
    [][(tick'.rc /\ rc'.sticks \notin Recognised) =>
          /\ armed' = armed
          /\ calibratingG' = (IF tick'.imu THEN Countdown(calibratingG) ELSE calibratingG)
          /\ calibratingA' = (IF tick'.imu THEN Countdown(calibratingA) ELSE calibratingA)
          /\ (~tick'.imu => accCalibrated' = accCalibrated)]_vars

\* armed, right after a receiver-only pass that read a new gesture which is
\* not one of the four
C13_Witness ==
    /\ armed
    /\ tick.rc
    /\ ~tick.imu
    /\ rc.changed
    /\ rc.sticks = GestureCentered

\* C14: a receiver tick whose gesture equals that of the previous receiver
\* tick fires no transition: armed is left alone and neither countdown is
\* reloaded (they only count down on the IMU tick of the pass).
C14_HeldGestureActsOnce ==
    [][(tick'.rc /\ rc'.sticks = rc.sticks) =>
          /\ armed' = armed
          /\ calibratingG' = (IF tick'.imu THEN Countdown(calibratingG) ELSE calibratingG)
          /\ calibratingA' = (IF tick'.imu THEN Countdown(calibratingA) ELSE calibratingA)]_vars

\* the arm gesture is still held on a receiver tick, every guard of arming
\* holds by now, and the craft stays disarmed
C14_Witness ==
    /\ ~armed
    /\ tick.rc
    /\ ~rc.changed
    /\ rc.sticks = GestureArm
    /\ rc.aux = 0
    /\ calibratingG = 0
    /\ accCalibrated

\* C15: on every receiver tick with the throttle down resetIntegral is
\* called, before any arming or disarming of that tick is shown, whether or
\* not the gesture changed and whether armed or not: the accumulators are
\* zero when the receiver branch is left.
C15_ResetOnEveryLandedTick ==
    (tick.rc /\ throttleIsDown(rc)) =>
        /\ \E i \in DOMAIN tick.calls :
              /\ tick.calls[i] = "resetIntegral"
              /\ \A j \in DOMAIN tick.calls :
                    tick.calls[j] = "showArmedStatus" => i < j
        /\ IF tick.imu
           THEN last.op = "update" /\ last.afterReset /\ last.before = Zero3
           ELSE last.op = "reset" /\ fx.errorGyroI = Zero3 /\ fx.errorAngleI = Zero2

\* a receiver tick with the throttle down that reset the integrators and
\* then armed the craft
C15_Witness ==
    /\ tick.rc
    /\ throttleIsDown(rc)
    /\ armed
    /\ tick.calls = <<"resetIntegral", "showArmedStatus", "extrasCheckSwitch">>

\* C16: a receiver tick processed while armed reloads neither calibratingG
\* nor calibratingA, whatever the gesture; the counters change only by the
\* countdown of an IMU tick in the same pass.
C16_NoCalibrationWhileArmed ==
    [][(armed /\ tick'.rc) =>
          /\ calibratingG' = (IF tick'.imu THEN Countdown(calibratingG) ELSE calibratingG)
          /\ calibratingA' = (IF tick'.imu THEN Countdown(calibratingA) ELSE calibratingA)]_vars

\* armed, right after a receiver tick that read the gyro calibration
\* gesture as a new gesture, with both counters at zero
C16_Witness ==
    /\ armed
    /\ tick.rc
    /\ rc.changed
    /\ rc.sticks = GestureGyroCal
    /\ calibratingG = 0
    /\ calibratingA = 0

----------------------------------------------------------------------------
(* resetIntegral (specification SpecStab)                                  *)

\* the D-term history of the controller under study: the last rate sample
\* and the two delta slots
History ==
    IF prog = "float"
    THEN <<fl.lastGyro, fl.gyroDelta1, fl.gyroDelta2>>
    ELSE <<fx.lastGyro, fx.delta1, fx.delta2>>

\* the integral accumulators of the controller under study are all zero
ZeroIntegrals ==
    IF prog = "float"
    THEN fl.errorGyroI = Zero3
    ELSE fx.errorGyroI = Zero3 /\ fx.errorAngleI = Zero2

\* C17 as stated: after resetIntegral the accumulators, the last rate
\* sample and both delta slots of every axis are zero, as after init.
C17_ResetZeroesAllMemory ==
    last.op = "reset" => ZeroMemory

\* C17: resetIntegral zeroes the integral accumulators of every axis and
\* leaves the last rate sample and both delta slots as they were; only
\* init zeroes those.
C17_ResetZeroesIntegralsOnly ==
    [][(last'.op = "reset") => (ZeroIntegrals' /\ History' = History)]_vars

\* right after resetIntegral on a fixed-point controller whose D-term
\* history is not zero
C17_Witness ==
    /\ prog = "fixed"
    /\ last.op = "reset"
    /\ fx.errorGyroI = Zero3
    /\ fx.errorAngleI = Zero2
    /\ fx.lastGyro /= Zero3
    /\ fx.delta1 /= Zero3

----------------------------------------------------------------------------
(* The blend proportion (specification SpecStab)                           *)

\* C18: in every update the blend proportion prop lies between 0 and full
\* scale (1, or 500 in the fixed-point form), so that both blend weights
\* are non-negative.
C18_PropInRange ==
    last.op = "update" =>
        /\ 0 <= last.prop
        /\ last.prop <= (IF prog = "float" THEN One ELSE FixedFullProp)

----------------------------------------------------------------------------
(* The calibration countdowns (specification SpecLive)                     *)

\* one IMU tick's worth of countdown: one less when positive, else zero
OneLess(c) == IF c > 0 THEN c - 1 ELSE 0

\* the step is a receiver tick on which a disarmed craft acts on gesture
ReloadStep(gesture) ==
    tick'.rc /\ ~armed /\ rc'.changed /\ rc'.sticks = gesture

\* the state right after a receiver tick that acted on gesture
Reloaded(gesture) ==
    tick.rc /\ ~armed /\ rc.changed /\ rc.sticks = gesture

\* C19: an IMU tick takes each calibration counter down by exactly one when
\* it is positive and leaves it at zero otherwise (counting from the
\* reloaded value when a calibration gesture acted on the same pass), a
\* pass without an IMU tick and without a reload leaves it alone, and, as
\* IMU ticks keep occurring, a running countdown reaches zero unless its
\* gesture reloads it.
C19_CountdownRunsOut ==
    /\ [][/\ calibratingG' =
               (LET c == IF ReloadStep(GestureGyroCal)
                         THEN calibratingGyroCycles ELSE calibratingG
                IN  IF tick'.imu THEN OneLess(c) ELSE c)
           /\ calibratingA' =
               (LET d == IF ReloadStep(GestureAccCal)
                         THEN calibratingAccCycles ELSE calibratingA
                IN  IF tick'.imu THEN OneLess(d) ELSE d)]_vars
    /\ (calibratingG > 0) ~> (calibratingG = 0 \/ Reloaded(GestureGyroCal))
    /\ (calibratingA > 0) ~> (calibratingA = 0 \/ Reloaded(GestureAccCal))

\* an IMU tick on which the accelerometer countdown, started by the gesture
\* that is still held, has just run out
C19_Witness ==
    /\ tick.imu
    /\ ~tick.rc
    /\ ~armed
    /\ rc.sticks = GestureAccCal
    /\ calibratingA = 0
    /\ calibratingG = 0
    /\ accCalibrated

----------------------------------------------------------------------------
(* Arming and gyro calibration (specification Spec)                        *)

\* C20: in every state reached from initialize() by passes of update(), an
\* armed craft has no gyro calibration in progress: armed implies that
\* calibratingG is 0.
C20_ArmedNotCalibratingGyro ==
    armed => calibratingG = 0

\* the pass that armed the craft while the accelerometer countdown was
\* still running, the gyro countdown having run out
C20_Witness ==
    /\ armed
    /\ tick.shown = "armed"
    /\ calibratingG = 0
    /\ calibratingA > 0

----------------------------------------------------------------------------
(* The angle error of the fixed-point controller (specification SpecStab)  *)

\* the command doubled and limited to the maximum inclination, minus the
\* measured angle
LimitedCommandLessAngle(a) ==
    constrain(2 * last.rcCommand[a], -CONFIG_MAX_ANGLE_INCLINATION,
              CONFIG_MAX_ANGLE_INCLINATION) - last.angle[a]

\* C21: in every update of the fixed-point controller the angle error of
\* roll and pitch is the command doubled and limited to the maximum
\* inclination, minus the measured angle, whichever way the command is
\* limited: the angle P-term is that error times CONFIG_LEVEL_P / 100, and
\* in the first update after a reset the angle accumulator is that error.
C21_AngleErrorSubtractsAngle ==
    (prog = "fixed" /\ last.op = "update") =>
        \A a \in Cyclic :
            /\ last.pacc[a] = Quot(LimitedCommandLessAngle(a) * CONFIG_LEVEL_P, 100)
            /\ last.afterReset => fx.errorAngleI[a] = LimitedCommandLessAngle(a)

----------------------------------------------------------------------------
(* The derivative term (specification SpecStab)                            *)

\* C22: in every update of either controller, the sum of three deltas that
\* is multiplied by the derivative gain of roll and pitch is the rate
\* measured now minus the rate measured three updates earlier, the rates
\* before the first update after init counting as zero; calls of
\* resetIntegral in between make no difference.
C22_DeltaSumSpansThreeUpdates ==
    [][(last'.op = "update") =>
          \A a \in Cyclic : last'.dsum[a] = last'.gyro[a] - last.rates[3][a]]_vars

\* an update right after resetIntegral, at least three updates after init,
\* where the rate three updates earlier and the rate now differ and neither
\* is zero
C22_Witness ==
    /\ last.op = "update"
    /\ last.afterReset
    /\ last.dsum[AXIS_ROLL] /= 0
    /\ last.dsum[AXIS_ROLL] /= last.gyro[AXIS_ROLL]
    /\ last.rates[2][AXIS_ROLL] /= last.rates[3][AXIS_ROLL]

====
